---- MODULE Spec2Model ----
(***************************************************************************)
(* Model of newRaydiumLpService.js: connectToDatabase and                  *)
(* processRaydiumLpTransaction, with the helpers the latter calls          *)
(* (decodeInstructionData, decodeAddLiquidityInstruction,                  *)
(* decodeRemoveLiquidityInstruction, hexToDecimal) and the library calls   *)
(* they make (bs58.decode, borsh.deserialize, String.prototype.includes).  *)
(*                                                                         *)
(* JavaScript strings that the code inspects character by character (the   *)
(* instruction data) are sequences of one-character strings.  A byte       *)
(* buffer is a sequence of 0..255.  One behaviour is one call of           *)
(* processRaydiumLpTransaction, optionally preceded by connectToDatabase.  *)
(***************************************************************************)
EXTENDS Integers, Sequences, FiniteSets, TLC

\* ------------------------------------------------------------------ bounds
\* Largest number of instructions in a generated transaction message.
MaxInstr == 2

\* --------------------------------------------------------- JS value helpers
NULL == [type |-> "null"]
UNDEFINED == [type |-> "undefined"]
Str(s) == [type |-> "string", val |-> s]
Num(n) == [type |-> "number", val |-> n]

\* The === operator on tagged values: different types are never equal.
StrictEq(a, b) == /\ a.type = b.type
                  /\ IF a.type \in {"null", "undefined"} THEN TRUE ELSE a.val = b.val

\* process.env.RAYDIUM_AMM_PROGRAM_ID and process.env.SERUM_PROGRAM_ID
RAYDIUM_AMM_PROGRAM_ID == "RAYDIUM_AMM"
SERUM_PROGRAM_ID == "SERUM"

\* ------------------------------------------------------------- bs58.decode
ALPHABET ==
  <<"1","2","3","4","5","6","7","8","9","A","B","C","D","E","F","G","H","J",
    "K","L","M","N","P","Q","R","S","T","U","V","W","X","Y","Z","a","b","c",
    "d","e","f","g","h","i","j","k","m","n","o","p","q","r","s","t","u","v",
    "w","x","y","z">>

IsBase58Char(c) == \E k \in 1..Len(ALPHABET) : ALPHABET[k] = c

B58Index(c) == (CHOOSE k \in 1..Len(ALPHABET) : ALPHABET[k] = c) - 1

Front(s) == SubSeq(s, 1, Len(s) - 1)

RECURSIVE Reverse(_)
Reverse(s) == IF s = <<>> THEN <<>> ELSE Reverse(Tail(s)) \o <<s[1]>>

\* One step of the base conversion: the little-endian base-256 number le is
\* multiplied by 58 and carry is added.
RECURSIVE MulAddLE(_, _)
MulAddLE(le, carry) ==
  IF le = <<>>
    THEN IF carry = 0 THEN <<>> ELSE <<carry % 256>> \o MulAddLE(<<>>, carry \div 256)
    ELSE LET v == le[1] * 58 + carry
         IN  <<v % 256>> \o MulAddLE(Tail(le), v \div 256)

RECURSIVE B58ToLE(_)
B58ToLE(s) == IF s = <<>> THEN <<>> ELSE MulAddLE(B58ToLE(Front(s)), B58Index(s[Len(s)]))

RECURSIVE LeadingOnes(_)
LeadingOnes(s) == IF s # <<>> /\ s[1] = "1" THEN 1 + LeadingOnes(Tail(s)) ELSE 0

\* bs58.decode(string): throws 'Non-base58 character' on any character outside
\* the alphabet; otherwise one zero byte per leading '1' followed by the
\* big-endian bytes of the base-58 number.
Bs58Decode(s) ==
  IF \E k \in 1..Len(s) : ~IsBase58Char(s[k])
    THEN [threw |-> TRUE, error |-> "Non-base58 character"]
    ELSE [threw |-> FALSE,
          bytes |-> [k \in 1..LeadingOnes(s) |-> 0] \o Reverse(B58ToLE(s))]

\* ----------------------------------------------------- String.includes
Includes(s, sub) ==
  \E k \in 1..(Len(s) - Len(sub) + 1) : SubSeq(s, k, k + Len(sub) - 1) = sub

someAddLiquidityIdentifier ==
  <<"s","o","m","e","A","d","d","L","i","q","u","i","d","i","t","y",
    "I","d","e","n","t","i","f","i","e","r">>

someRemoveLiquidityIdentifier ==
  <<"s","o","m","e","R","e","m","o","v","e","L","i","q","u","i","d","i","t","y",
    "I","d","e","n","t","i","f","i","e","r">>

\* ------------------------------------------------------------ hexToDecimal
\* Number of hex digits BN.toString('hex') prints for the unsigned integer
\* whose little-endian bytes are le ("0" for zero).
RECURSIVE HexDigits(_)
HexDigits(le) ==
  IF le = <<>> THEN 1
  ELSE IF le[Len(le)] = 0 THEN HexDigits(Front(le))
  ELSE 2 * (Len(le) - 1) + (IF le[Len(le)] >= 16 THEN 2 ELSE 1)

\* hexToDecimal(hex): Buffer.from(hex, 'hex') keeps the complete digit pairs,
\* and readUIntLE(0, n) throws a RangeError unless 1 <= n <= 6.
HexToDecimalThrows(le) ==
  LET n == HexDigits(le) \div 2 IN n < 1 \/ n > 6

\* ------------------------------------------------------- borsh.deserialize
\* Field widths in bytes of addLiquiditySchema and removeLiquiditySchema.
addLiquiditySchema == <<1, 8, 8, 1>>
removeLiquiditySchema == <<1, 8>>

RECURSIVE Sum(_)
Sum(ws) == IF ws = <<>> THEN 0 ELSE ws[1] + Sum(Tail(ws))

\* borsh.deserialize(schema, class, buffer): reads the fields in order and
\* throws when the buffer is too short or has bytes left over.
BorshDeserialize(schema, bytes) ==
  IF Len(bytes) # Sum(schema)
    THEN [threw |-> TRUE, error |-> "BorshError"]
    ELSE [threw |-> FALSE,
          fields |-> [f \in 1..Len(schema) |->
                        SubSeq(bytes, Sum(SubSeq(schema, 1, f - 1)) + 1,
                                      Sum(SubSeq(schema, 1, f)))]]

\* A decoder's result: either a thrown error or a returned value.
Throw(msg) == [threw |-> TRUE, error |-> msg]
Return(v) == [threw |-> FALSE, value |-> v]

DecodedObject(variant, instructionByte) ==
  [type |-> "object", variant |-> variant, instruction |-> Num(instructionByte)]

decodeAddLiquidityInstruction(data) ==
  LET buffer == Bs58Decode(data) IN
  IF buffer.threw THEN Throw(buffer.error)
  ELSE LET decoded == BorshDeserialize(addLiquiditySchema, buffer.bytes) IN
       IF decoded.threw THEN Throw(decoded.error)
       ELSE IF HexToDecimalThrows(decoded.fields[2]) \/ HexToDecimalThrows(decoded.fields[3])
         THEN Throw("RangeError")
         ELSE Return(DecodedObject("AddLiquidityInstruction", decoded.fields[1][1]))

decodeRemoveLiquidityInstruction(data) ==
  LET buffer == Bs58Decode(data) IN
  IF buffer.threw THEN Throw(buffer.error)
  ELSE LET decoded == BorshDeserialize(removeLiquiditySchema, buffer.bytes) IN
       IF decoded.threw THEN Throw(decoded.error)
       ELSE IF HexToDecimalThrows(decoded.fields[2])
         THEN Throw("RangeError")
         ELSE Return(DecodedObject("RemoveLiquidityInstruction", decoded.fields[1][1]))

decodeInstructionData(data) ==
  IF Includes(data, someAddLiquidityIdentifier)
    THEN decodeAddLiquidityInstruction(data)
  ELSE IF Includes(data, someRemoveLiquidityIdentifier)
    THEN decodeRemoveLiquidityInstruction(data)
  ELSE Return(NULL)

\* ------------------------------------------------- account table indexing
\* array[i] in JavaScript: undefined when i is not an index of the array.
AccountAt(accounts, pos) ==
  IF pos < Len(accounts) THEN Num(accounts[pos + 1]) ELSE UNDEFINED

StaticKey(keys, i) ==
  IF i.type = "number" /\ i.val >= 0 /\ i.val < Len(keys)
    THEN Str(keys[i.val + 1]) ELSE UNDEFINED

\* Position in ix.accounts of each role of tokenData.
RoleIndex ==
  [ammId |-> 0, ammAuthority |-> 1, ammOpenOrders |-> 2, coinVault |-> 3,
   pcVault |-> 4, lpMint |-> 5, coinMint |-> 6, pcMint |-> 7,
   ammTargetOrders |-> 8, serumMarket |-> 11]

Roles == DOMAIN RoleIndex

\* The tokenData literal: every slot is staticAccountKeys[...].toString(), which
\* throws a TypeError when the key is undefined; the deployer is the last
\* entry of the account table.
ResolveAccounts(keys, ix, programId) ==
  LET slot == [r \in Roles |-> StaticKey(keys, AccountAt(ix.accounts, RoleIndex[r]))]
      deployer == StaticKey(keys, Num(Len(keys) - 1))
  IN  IF (\E r \in Roles : slot[r].type = "undefined") \/ deployer.type = "undefined"
        THEN Throw("TypeError")
        ELSE Return([type |-> "object",
                     programId |-> programId.val,
                     ammId |-> slot.ammId.val,
                     ammAuthority |-> slot.ammAuthority.val,
                     ammOpenOrders |-> slot.ammOpenOrders.val,
                     coinVault |-> slot.coinVault.val,
                     pcVault |-> slot.pcVault.val,
                     lpMint |-> slot.lpMint.val,
                     coinMint |-> slot.coinMint.val,
                     pcMint |-> slot.pcMint.val,
                     ammTargetOrders |-> slot.ammTargetOrders.val,
                     serumMarket |-> slot.serumMarket.val,
                     serumProgram |-> SERUM_PROGRAM_ID,
                     deployer |-> deployer.val])

\* ------------------------------------------------ the body of the for loop
\* The comparison dropped: every instruction is taken for the target program's.
ProgramMatchesAny(programId) == TRUE

\* programId === process.env.RAYDIUM_AMM_PROGRAM_ID
ProgramMatches(programId) == StrictEq(programId, Str(RAYDIUM_AMM_PROGRAM_ID))

\* The guard with its null test inverted: !decodedInstruction || (...).
IsLpCreationOrNull(decodedInstruction) ==
  \/ decodedInstruction.type # "object"
  \/ StrictEq(decodedInstruction.instruction, Str("CreatePool"))
  \/ StrictEq(decodedInstruction.instruction, Str("InitializeInstruction2"))

\* decodedInstruction && (decodedInstruction.instruction === 'CreatePool' ||
\*                        decodedInstruction.instruction === 'InitializeInstruction2')
IsLpCreation(decodedInstruction) ==
  /\ decodedInstruction.type = "object"
  /\ \/ StrictEq(decodedInstruction.instruction, Str("CreatePool"))
     \/ StrictEq(decodedInstruction.instruction, Str("InitializeInstruction2"))

\* { ...a, ...b }: the properties of a, then those of b.
Spread(a, b) ==
  [k \in DOMAIN a \cup DOMAIN b |-> IF k \in DOMAIN b THEN b[k] ELSE a[k]]

\* What one iteration did; the fields record the calls it made.
NoStep ==
  [programId |-> UNDEFINED, decodeCalled |-> FALSE, decoded |-> UNDEFINED,
   resolveCalled |-> FALSE, tokenData |-> NULL, balanceCalled |-> FALSE,
   insertCalled |-> FALSE, event |-> NULL, outcome |-> "skip",
   error |-> "", failKind |-> "none"]

Fail(step, kind, msg) ==
  [step EXCEPT !.outcome = "throw", !.failKind = kind, !.error = msg]

\* One iteration of the loop over message.instructions, for
\* instruction ix: the outcome is "skip" (next iteration), "throw" (control
\* passes to the catch clause) or "return" (return tokenData).
\* dbHandle is the module's db, balance and insert are what
\* connection.getBalance and insertOne do when called.
ProcessInstruction(keys, ix, sig, dbHandle, balance, insert) ==
  LET programId == StaticKey(keys, Num(ix.programIdIndex))
      s1 == [NoStep EXCEPT !.programId = programId]
  IN
  IF programId.type = "undefined" THEN Fail(s1, "program", "TypeError")
  ELSE IF ~ProgramMatches(programId) THEN s1
  ELSE
    LET d == decodeInstructionData(ix.data)
        s2 == [s1 EXCEPT !.decodeCalled = TRUE]
    IN
    IF d.threw THEN Fail(s2, "decode", d.error)
    ELSE
      LET s3 == [s2 EXCEPT !.decoded = d.value] IN
      IF ~IsLpCreation(d.value) THEN s3
      ELSE
        LET t == ResolveAccounts(keys, ix, programId)
            s4 == [s3 EXCEPT !.resolveCalled = TRUE]
        IN
        IF t.threw THEN Fail(s4, "resolve", t.error)
        ELSE
          LET s5 == [s4 EXCEPT !.tokenData = t.value, !.balanceCalled = TRUE] IN
          IF balance.rejects THEN Fail(s5, "balance", "getBalance failed")
          ELSE IF d.value.type # "object" THEN Fail(s5, "event", "TypeError")
          ELSE
            LET eventDetails ==
                  Spread([signature |-> sig,
                          instructionType |-> d.value.instruction,
                          decodedInstruction |-> d.value,
                          liquidityAmount |-> Num(balance.lamports \div 1000000000)],
                         t.value)
                s6 == [s5 EXCEPT !.event = eventDetails]
            IN
            IF dbHandle.type = "undefined" THEN Fail(s6, "insert", "TypeError")
            ELSE
              LET s7 == [s6 EXCEPT !.insertCalled = TRUE] IN
              IF insert.rejects THEN Fail(s7, "insert", "insertOne failed")
              ELSE [s7 EXCEPT !.outcome = "return"]

\* A catch clause that logs and throws the error again.
CatchClauseRethrow(err) == [logged |-> err, rethrown |-> TRUE]

\* catch (error) { console.error(..., error.message) }: the error is logged
\* and not rethrown.
CatchClause(err) == [logged |-> err, rethrown |-> FALSE]

\* A final return that hands back an (empty) record instead of null.
FinalReturnRecord == [type |-> "object"]

\* The return statement after the try block.
FinalReturn == NULL

\* ------------------------------------------------------------------ inputs
Signature == "sig1"

\* Account table of the generated messages: the target program at index 0.
SmallTable == <<RAYDIUM_AMM_PROGRAM_ID, "A1">>

\* ix.data samples, as base-58 text of the payload bytes given in the comment.
DataInit1 == <<"2">>                           \* [1]
DataInit2 == <<"3">>                           \* [2]
DataAdd == <<"4">>                             \* [3]
DataAdd7 == <<"E", "N">>                       \* [3, 7]
DataRemove == <<"5">>                          \* [4]
\* [2] ++ u64le(1000000) ++ u64le(500000)
DataInit2Amounts ==
  <<"2","E","A","D","C","i","p","z","8","U","r","J","9","f","5","J","X","i",
    "H","6","n","2","B">>

Accounts12 == <<1, 0, 1, 0, 1, 0, 1, 0, 1, 0, 1, 1>>
Accounts12LpMintOut == <<1, 0, 1, 0, 1, 2, 1, 0, 1, 0, 1, 1>>
Accounts3 == <<1, 0, 1>>

Ix(p, a, d) == [programIdIndex |-> p, accounts |-> a, data |-> d]

IxSamples ==
  {Ix(1, Accounts12, DataInit2), Ix(2, Accounts12, DataInit2)}
  \cup {Ix(0, a, DataInit2) : a \in {Accounts12, Accounts12LpMintOut, Accounts3}}
  \cup {Ix(0, Accounts12, d) :
          d \in {DataInit1, DataAdd, DataAdd7, DataRemove,
                 someAddLiquidityIdentifier, someRemoveLiquidityIdentifier}}

ScenarioTable ==
  <<"A0", "A1", "A2", "A3", "A4", "A5", "A6", "A7", "A8",
    RAYDIUM_AMM_PROGRAM_ID, "A10", "A11", "A12">>

ScenarioAccounts == <<0, 1, 2, 3, 4, 5, 6, 7, 8, 9, 10, 11>>

ScenarioIx ==
  {Ix(9, ScenarioAccounts, DataInit2Amounts), Ix(10, ScenarioAccounts, DataInit2Amounts),
   Ix(9, ScenarioAccounts, DataAdd)}

SeqsUpTo(S, n) == UNION {[1..k -> S] : k \in 0..n}

\* transactionDetails.transaction.message: a legacy message carries an
\* instructions array, a version-0 message has no such property.
Messages ==
  {[keys |-> SmallTable, isArray |-> TRUE, instructions |-> is] :
      is \in SeqsUpTo(IxSamples, MaxInstr)}
  \cup {[keys |-> ScenarioTable, isArray |-> TRUE, instructions |-> <<i>>] : i \in ScenarioIx}
  \cup {[keys |-> SmallTable, isArray |-> FALSE, instructions |-> <<>>]}

NoMessage == [keys |-> <<>>, isArray |-> FALSE, instructions |-> <<>>]

BalanceOutcomes ==
  {[rejects |-> TRUE, lamports |-> 0], [rejects |-> FALSE, lamports |-> 2000000000]}

InsertOutcomes == {[rejects |-> TRUE], [rejects |-> FALSE]}

\* ------------------------------------------------------------------- state
VARIABLES
  db,         \* the module-level db handle
  balance,    \* what connection.getBalance does in this call
  insert,     \* what insertOne does in this call
  pc,         \* position in processRaydiumLpTransaction
  fetch,      \* result of connection.getTransaction: pending, tx, null, reject
  message,    \* transactionDetails.transaction.message
  steps,      \* one record per loop iteration performed
  collection, \* the documents of collection 'Test1'
  logged,     \* the message passed to console.error by the catch clause
  escaped,    \* an exception left processRaydiumLpTransaction
  result      \* the value returned

vars == <<db, balance, insert, pc, fetch, message, steps, collection, logged,
          escaped, result>>

Init ==
  /\ db = UNDEFINED
  /\ balance \in BalanceOutcomes
  /\ insert \in InsertOutcomes
  /\ pc = "start"
  /\ fetch = "pending"
  /\ message = NoMessage
  /\ steps = <<>>
  /\ collection = <<>>
  /\ logged = ""
  /\ escaped = FALSE
  /\ result = UNDEFINED

\* connectToDatabase(): db is set when client.connect() succeeds; a failure
\* is logged and db is left as it was.
ConnectToDatabase ==
  /\ pc = "start"
  /\ db = UNDEFINED
  /\ \E ok \in BOOLEAN : db' = IF ok THEN Str("Test1") ELSE db
  /\ UNCHANGED <<balance, insert, pc, fetch, message, steps, collection, logged,
                 escaped, result>>

\* await connection.getTransaction(...), the test of transactionDetails and
\* of Array.isArray(message.instructions).
GetTransaction ==
  /\ pc = "start"
  /\ \/ /\ fetch' = "reject"
        /\ pc' = "catch"
        /\ logged' = "getTransaction failed"
        /\ UNCHANGED message
     \/ /\ fetch' = "null"
        /\ pc' = "exit"
        /\ UNCHANGED <<message, logged>>
     \/ \E m \in Messages :
          /\ fetch' = "tx"
          /\ message' = m
          /\ pc' = IF m.isArray THEN "loop" ELSE "exit"
          /\ UNCHANGED logged
  /\ UNCHANGED <<db, balance, insert, steps, collection, escaped, result>>

\* One iteration of the for loop, up to the next iteration, the throw or the
\* return of tokenData.
ScanInstruction ==
  /\ pc = "loop"
  /\ Len(steps) < Len(message.instructions)
  /\ LET ix == message.instructions[Len(steps) + 1]
         s == ProcessInstruction(message.keys, ix, Signature, db, balance, insert)
     IN  /\ steps' = Append(steps, s)
         /\ pc' = CASE s.outcome = "skip" -> "loop"
                    [] s.outcome = "throw" -> "catch"
                    [] s.outcome = "return" -> "done"
         /\ logged' = IF s.outcome = "throw" THEN s.error ELSE logged
         /\ collection' = IF s.outcome = "return" THEN Append(collection, s.event)
                          ELSE collection
         /\ result' = IF s.outcome = "return" THEN s.tokenData ELSE result
  /\ UNCHANGED <<db, balance, insert, fetch, message, escaped>>

\* The loop has consumed every instruction.
LoopExit ==
  /\ pc = "loop"
  /\ Len(steps) = Len(message.instructions)
  /\ pc' = "exit"
  /\ UNCHANGED <<db, balance, insert, fetch, message, steps, collection, logged,
                 escaped, result>>

\* The catch clause of the try block.
Catch ==
  /\ pc = "catch"
  /\ LET c == CatchClause(logged)
     IN  /\ logged' = c.logged
         /\ escaped' = c.rethrown
         /\ pc' = IF c.rethrown THEN "done" ELSE "exit"
  /\ UNCHANGED <<db, balance, insert, fetch, message, steps, collection, result>>

\* return null
ReturnNull ==
  /\ pc = "exit"
  /\ result' = FinalReturn
  /\ pc' = "done"
  /\ UNCHANGED <<db, balance, insert, fetch, message, steps, collection, logged,
                 escaped>>

Next ==
  \/ ConnectToDatabase
  \/ GetTransaction
  \/ ScanInstruction
  \/ LoopExit
  \/ Catch
  \/ ReturnNull

Spec == Init /\ [][Next]_vars

\* The event loop runs the call to its return once the awaited promises
\* settle.
FairSpec == Spec /\ WF_vars(Next)

\* ------------------------------------------------- vocabulary of the claims
Instrs == message.instructions

\* The leading byte of the payload that data encodes, -1 when there is none.
Discriminant(data) ==
  LET b == Bs58Decode(data)
  IN  IF b.threw THEN -1 ELSE IF b.bytes = <<>> THEN -1 ELSE b.bytes[1]

\* The instruction's program-id index selects the target program.
TargetsProgram(ix) ==
  /\ ix.programIdIndex < Len(message.keys)
  /\ message.keys[ix.programIdIndex + 1] = RAYDIUM_AMM_PROGRAM_ID

\* Initialize (1) and Initialize-v2 / CreatePool (2).
IsPoolCreationIx(ix) == TargetsProgram(ix) /\ Discriminant(ix.data) \in {1, 2}

\* Every index the role table reads exists and is inside the account table.
IsResolvableIx(ix) ==
  /\ Len(ix.accounts) >= 12
  /\ \A r \in Roles : ix.accounts[RoleIndex[r] + 1] < Len(message.keys)

\* The name the decoder's result stands for.
Classification(step) ==
  IF step.decoded.type = "object" THEN step.decoded.variant ELSE "None"

Examined == 1..Len(steps)

Yielded == {i \in Examined : steps[i].event.type # "null"}

\* C1: a decoding or resolution failure on one instruction does not abort the
\* scan: when the call has returned, every instruction after the failing one
\* has been examined.
ErrorIsolation ==
  pc = "done" =>
    \A i \in Examined :
      steps[i].failKind \in {"decode", "resolve"} => Len(steps) = Len(Instrs)

\* C2: when the balance lookup rejects, every resolvable pool-creation
\* instruction still has its event assembled without the liquidity snapshot,
\* and passed to the sink when the database handle is connected.
BalanceLookupDegradation ==
  (pc = "done" /\ fetch = "tx" /\ balance.rejects) =>
    \A i \in 1..Len(Instrs) :
      (IsPoolCreationIx(Instrs[i]) /\ IsResolvableIx(Instrs[i])) =>
        /\ i \in Yielded
        /\ "liquidityAmount" \notin DOMAIN steps[i].event
        /\ db.type # "undefined" => steps[i].insertCalled

\* C3: the number of events a scan yields is the number of resolvable
\* pool-creation instructions of the transaction.
OneEventPerMatchingInstruction ==
  (pc = "done" /\ fetch = "tx") =>
    Cardinality(Yielded) =
      Cardinality({i \in 1..Len(Instrs) :
                     IsPoolCreationIx(Instrs[i]) /\ IsResolvableIx(Instrs[i])})

\* C4: for an instruction whose program is not the target program nothing
\* beyond the program-id comparison is done (no decoding, no resolution, no
\* balance lookup, no insertion), and a transaction without an instruction of
\* the target program leaves the collection empty and returns null.
ProgramFilterFirst ==
  /\ \A i \in Examined :
       ~TargetsProgram(Instrs[i]) =>
         /\ ~steps[i].decodeCalled
         /\ ~steps[i].resolveCalled
         /\ ~steps[i].balanceCalled
         /\ ~steps[i].insertCalled
         /\ i \notin Yielded
  /\ (pc = "done" /\ \A i \in 1..Len(Instrs) : ~TargetsProgram(Instrs[i])) =>
       collection = <<>> /\ result = NULL

\* C4 witness: an instruction of another program was skipped and the next
\* one, of the target program, was decoded.
ProgramFilterFirstWitness ==
  /\ pc = "done"
  /\ Len(steps) = 2
  /\ ~TargetsProgram(Instrs[1])
  /\ steps[1].outcome = "skip"
  /\ steps[2].decodeCalled

ScenarioMessage ==
  [keys |-> ScenarioTable, isArray |-> TRUE,
   instructions |-> <<Ix(9, ScenarioAccounts, DataInit2Amounts)>>]

\* C5: scanning the 13-account scenario with one InitializePool instruction
\* yields exactly one event with ammId A0, serumMarket A11, deployer A12 and
\* the InitializePool type tag.
EndToEndPoolCreation ==
  (pc = "done" /\ fetch = "tx" /\ message = ScenarioMessage) =>
    /\ Yielded = {1}
    /\ steps[1].event.ammId = "A0"
    /\ steps[1].event.serumMarket = "A11"
    /\ steps[1].event.deployer = "A12"
    /\ StrictEq(steps[1].event.instructionType, Str("InitializeInstruction2"))

TypedResolutionFailures ==
  \A i \in Examined :
    IsPoolCreationIx(Instrs[i]) =>
      /\ Len(Instrs[i].accounts) < 12 =>
           steps[i].error = "InsufficientAccounts" /\ i \notin Yielded
      /\ (Len(Instrs[i].accounts) >= 12 /\ Instrs[i].accounts[6] >= Len(message.keys)) =>
           steps[i].error = "IndexOutOfRange: lpMint" /\ i \notin Yielded

\* C8: two payloads with the same discriminant are classified alike, and
\* discriminant 3 is classified AddLiquidity, 4 RemoveLiquidity.
ClassificationByDiscriminant ==
  \A i \in Examined :
    (steps[i].decodeCalled /\ steps[i].failKind # "decode") =>
      /\ \A j \in Examined :
           (steps[j].decodeCalled /\ steps[j].failKind # "decode"
              /\ Discriminant(Instrs[i].data) = Discriminant(Instrs[j].data)) =>
             Classification(steps[i]) = Classification(steps[j])
      /\ Discriminant(Instrs[i].data) = 3 => Classification(steps[i]) = "AddLiquidityInstruction"
      /\ Discriminant(Instrs[i].data) = 4 => Classification(steps[i]) = "RemoveLiquidityInstruction"

\* C9: no exception ever leaves processRaydiumLpTransaction, and every call
\* returns, with null or the pool account record.
NoErrorEscapes ==
  /\ [](~escaped)
  /\ <>(pc = "done" /\ result.type \in {"null", "object"})

\* C9 witness: an exception thrown inside the loop ended in a return of null.
NoErrorEscapesWitness ==
  /\ pc = "done"
  /\ fetch = "tx"
  /\ \E i \in Examined : steps[i].outcome = "throw"
  /\ logged # ""
  /\ result = NULL

====
